---- MODULE Spec2Model ----
(***************************************************************************)
(* Model of the "netmore" ADR algorithm of chirpstack                      *)
(* (chirpstack/src/adr/netmore.rs), of the Pulsar event integration        *)
(* (chirpstack/src/integration/pulsar.rs) and of the message logger        *)
(* (chirpstack/src/messagelog/mod.rs).  The three share no state; each has *)
(* its own specification over the module's variables.                      *)
(*                                                                         *)
(* Units.  The source computes SNR values and the packet-loss percentage   *)
(* in f32.  The model keeps them as integers:                              *)
(*   - SNR, installation margin, power step: tenths of a dB (-7.5 dB is    *)
(*     -75).  Every value used is a multiple of 0.5 dB, which f32 holds    *)
(*     exactly, so sums and comparisons agree with the f32 ones.           *)
(*   - packet loss: hundredths of a percent, rounded down.  The bands are  *)
(*     cut at the integers 5, 10 and 30 percent, and floor(x) < k iff      *)
(*     x < k for an integer k; for histories of at most 22 samples the f32 *)
(*     quotient lost/len*100 lands on the same side of 5.0, 10.0 and 30.0  *)
(*     as the exact quotient (the exact hits 1/20, 1/10, 2/20, 3/10, 6/20  *)
(*     round to 5.0, 10.0, 10.0, 30.000002, 30.000002).                    *)
(* u8 arithmetic keeps its width: the only subtraction that can leave the  *)
(* range, resp.dr - 1, panics when overflow checks are compiled in (debug  *)
(* profile) and wraps modulo 2^8 when they are not (release profile).      *)
(***************************************************************************)
EXTENDS Integers, Sequences, FiniteSets

VARIABLES req, result, pulsar, messagelog

vars == <<req, result, pulsar, messagelog>>

\* ------------------------------------------------------------------ bounds

\* Largest data-rate index a request carries (dr, min_dr, max_dr in 0..MaxDr).
MaxDr == 6
\* Largest tx-power index a request carries.
MaxTxPower == 1
\* Largest current nb_trans a request carries (0 and values above 3 included).
MaxNbTrans == 4
\* Longest uplink history a request carries (one more than the window).
MaxHistory == 21

\* Frame counter of the oldest sample of a generated history.
FCntStart == 10

\* overflow-checks compiled in ("debug") or not ("release")
Builds == {"debug", "release"}

MacVersions == {"LORAWAN_1_0_0", "LORAWAN_1_0_1", "LORAWAN_1_0_3"}

\* ------------------------------------------------------- numeric tables

\* data_rate_to_req_snr: the match arms 0..5, in tenths of a dB.
data_rate_to_req_snr(rate) ==
    CASE rate = 5 -> -75
      [] rate = 4 -> -100
      [] rate = 3 -> -125
      [] rate = 2 -> -150
      [] rate = 1 -> -175
      [] rate = 0 -> -200

\* The highest rate data_rate_to_req_snr has an arm for.
MaxReqSnrRate == 5

\* data_rate_to_req_snr: the `_ => unimplemented!()` arm panics.
req_snr_unimplemented(rate) == rate \notin 0..MaxReqSnrRate

required_history_count == 20

pkt_loss_table == << <<0, 1, 2>>, <<1, 2, 3>>, <<2, 3, 4>>, <<4, 4, 4>> >>

\* The `-999.0` start value of get_max_snr, in tenths of a dB.
SnrSentinel == -9990

\* u8 arithmetic without overflow checks.
U8(x) == x % 256

min(a, b) == IF a < b THEN a ELSE b
max(a, b) == IF a > b THEN a ELSE b

\* Ord::clamp for min <= max (it asserts min <= max and panics otherwise).
clamp(v, lo, hi) == IF v < lo THEN lo ELSE IF v > hi THEN hi ELSE v

\* ---------------------------------------------------------- get_nb_trans

\* Mutant: the loss bands include their upper edge.
get_nb_trans_inclusive(current_nb_trans, pkt_loss_rate) ==
    LET c1 == IF current_nb_trans < 1 THEN 1 ELSE current_nb_trans
        c2 == IF c1 > 3 THEN 3 ELSE c1
    IN  IF pkt_loss_rate <= 500 THEN pkt_loss_table[1][c2]
        ELSE IF pkt_loss_rate <= 1000 THEN pkt_loss_table[2][c2]
        ELSE IF pkt_loss_rate <= 3000 THEN pkt_loss_table[3][c2]
        ELSE pkt_loss_table[4][c2]

\* pkt_loss_rate is in hundredths of a percent.
get_nb_trans(current_nb_trans, pkt_loss_rate) ==
    LET c1 == IF current_nb_trans < 1 THEN 1 ELSE current_nb_trans
        c2 == IF c1 > 3 THEN 3 ELSE c1
        nb_trans_index == c2 - 1
    IN  IF pkt_loss_rate < 500 THEN pkt_loss_table[1][nb_trans_index + 1]
        ELSE IF pkt_loss_rate < 1000 THEN pkt_loss_table[2][nb_trans_index + 1]
        ELSE IF pkt_loss_rate < 3000 THEN pkt_loss_table[3][nb_trans_index + 1]
        ELSE pkt_loss_table[4][nb_trans_index + 1]

\* ------------------------------------------- get_packet_loss_percentage

\* The loop of get_packet_loss_percentage from sample i on (1-based), with
\* the running previous_f_cnt and lost_packets.
RECURSIVE lost_packets_loop(_, _, _, _)
lost_packets_loop(h, i, previous_f_cnt, lost_packets) ==
    IF i > Len(h) THEN lost_packets
    ELSE IF i = 1 THEN lost_packets_loop(h, 2, h[1].f_cnt, lost_packets)
    ELSE lost_packets_loop(h, i + 1, h[i].f_cnt,
                           lost_packets + (h[i].f_cnt - previous_f_cnt - 1))

\* Hundredths of a percent, rounded down.
get_packet_loss_percentage(r) ==
    IF Len(r.uplink_history) = 0 THEN 0
    ELSE (lost_packets_loop(r.uplink_history, 1, 0, 0) * 10000)
             \div Len(r.uplink_history)

\* ----------------------------------------------------------- get_max_snr

RECURSIVE max_snr_loop(_, _, _, _)
max_snr_loop(h, i, end, max_snr) ==
    IF i > end THEN max_snr
    ELSE max_snr_loop(h, i + 1, end,
                      IF h[i].max_snr > max_snr THEN h[i].max_snr ELSE max_snr)

\* `req.uplink_history.len() - 5` is a usize subtraction.  With fewer than 5
\* samples it panics on overflow (debug), or wraps to 2^64 - k, which max(0, _)
\* keeps and the slice [0..end] rejects as out of range (release): a panic in
\* both builds.
get_max_snr_panics(r) == Len(r.uplink_history) < 5

get_max_snr(r) ==
    LET end == max(0, Len(r.uplink_history) - 5)
    IN  max_snr_loop(r.uplink_history, 1, end, SnrSentinel)

\* ----------------------------------------------------------------- handle

\* What one call of handle leaves behind.  kind is "ok" (Ok(resp) returned,
\* the response in dr / tx_power_index / nb_trans) or "panic" (the call
\* unwound, cause says where; no response).  path holds the blocks of handle
\* that ran; retuned is resp as it stands at the end of the history-gated
\* block (line 167); pkt_loss, calc_nb_trans and snr_max are the locals of
\* lines 128-130 (-1 / SnrSentinel - 1 when never computed).
Outcome(kind, cause, resp, path, retuned, pkt_loss, calc_nb_trans, snr_max) ==
    [kind |-> kind, cause |-> cause,
     dr |-> resp.dr, tx_power_index |-> resp.tx_power_index,
     nb_trans |-> resp.nb_trans,
     path |-> path, retuned |-> retuned,
     pkt_loss |-> pkt_loss, calc_nb_trans |-> calc_nb_trans,
     snr_max |-> snr_max]

NoResp == [dr |-> 0, tx_power_index |-> 0, nb_trans |-> 0]

NoResult == Outcome("none", "", NoResp, {}, NoResp, -1, -1, SnrSentinel - 1)

\* Lines 99-103: the response starts as the request's current values.
current_values(r) ==
    [dr |-> r.dr, tx_power_index |-> r.tx_power_index, nb_trans |-> r.nb_trans]

\* Mutant: the ADR flag read the wrong way round.
adr_disabled_inverted(r) == r.adr

\* Line 106.
adr_disabled(r) == ~r.adr

\* Lines 111 and 113-115: Ord::clamp asserts min <= max.
clamp_panics(r) ==
    \/ r.min_dr > r.max_dr
    \/ r.min_tx_power_index > r.max_tx_power_index

\* Mutant: a changed dr no longer forces the lowest power index.
bound_clamp_no_reset(r, resp) ==
    [resp EXCEPT !.dr = clamp(r.dr, r.min_dr, r.max_dr),
                 !.tx_power_index = clamp(r.tx_power_index,
                                          r.min_tx_power_index,
                                          r.max_tx_power_index)]

\* Lines 111-120: clamp dr and power; a changed dr forces the lowest index.
bound_clamp(r, resp) ==
    LET dr == clamp(r.dr, r.min_dr, r.max_dr)
        tx == clamp(r.tx_power_index, r.min_tx_power_index,
                    r.max_tx_power_index)
    IN  [resp EXCEPT !.dr = dr,
                     !.tx_power_index =
                         IF dr # r.dr THEN r.min_tx_power_index ELSE tx]

\* Line 122.
early_exit(r, resp) ==
    (resp.dr # r.dr) \/ (resp.tx_power_index # r.tx_power_index)

\* Mutant: the early exit keeps the request's nb_trans.
early_exit_response_keeps_nb(resp) == resp

\* Lines 123-124.
early_exit_response(resp) == [resp EXCEPT !.nb_trans = 1]

\* Mutant: skip_fcnt_check is ignored.
max_nb_trans_ignores_skip(r) == 3

\* Line 138.
max_nb_trans(r) == IF r.skip_fcnt_check THEN 1 ELSE 3

\* Lines 147-150, tenths of a dB.
tx_power_step(r) ==
    IF r.mac_version \in {"LORAWAN_1_0_0", "LORAWAN_1_0_1"} THEN 30 ELSE 20

\* Lines 140-142: resp.dr - 1 on a u8.
step_down_panics(resp, build) == resp.dr = 0 /\ build = "debug"

step_down(r, resp) ==
    [resp EXCEPT !.dr = max(U8(resp.dr - 1), r.min_dr), !.nb_trans = 1]

\* Lines 133-166, the body of the `len() == required_history_count()` block.
\* Returns [panic, resp, path]; panic is "" when the block runs to its end.
retune(r, resp, calc_nb_trans, snr_max, build) ==
    LET reset == calc_nb_trans > resp.nb_trans
        r1 == [resp EXCEPT
                 !.tx_power_index =
                     IF reset THEN r.min_tx_power_index ELSE @,
                 !.nb_trans = calc_nb_trans]
        p1 == {"retune"} \cup (IF reset THEN {"power_reset"} ELSE {})
        cap(x) == [x EXCEPT !.nb_trans = min(x.nb_trans, max_nb_trans(r))]
    IN  IF r1.nb_trans > max_nb_trans(r)
        THEN IF step_down_panics(r1, build)
             THEN [panic |-> "sub_overflow", resp |-> r1, path |-> p1]
             ELSE [panic |-> "", resp |-> step_down(r, r1),
                   path |-> p1 \cup {"step_down"}]
        ELSE IF r1.nb_trans < 1
        THEN LET r2 == [r1 EXCEPT !.nb_trans = 1]
             IN  IF r2.dr = r.max_dr
                 THEN IF req_snr_unimplemented(r2.dr)
                      THEN [panic |-> "unimplemented", resp |-> r2,
                            path |-> p1]
                      ELSE LET snr_min == data_rate_to_req_snr(r2.dr)
                                            + r.installation_margin
                                            + tx_power_step(r)
                           IN  IF snr_max > snr_min
                               THEN [panic |-> "",
                                     resp |-> cap([r2 EXCEPT
                                        !.tx_power_index =
                                            min(U8(r.tx_power_index + 1),
                                                r.max_tx_power_index)]),
                                     path |-> p1 \cup {"raise_power"}]
                               ELSE [panic |-> "", resp |-> cap(r2),
                                     path |-> p1]
                 ELSE IF req_snr_unimplemented(r2.dr + 1)
                      THEN [panic |-> "unimplemented", resp |-> r2,
                            path |-> p1]
                      ELSE IF snr_max > data_rate_to_req_snr(r2.dr + 1)
                                          + r.installation_margin
                           THEN [panic |-> "",
                                 resp |-> cap([r2 EXCEPT
                                    !.dr = @ + 1,
                                    !.nb_trans = 2,
                                    !.tx_power_index = r.min_tx_power_index]),
                                 path |-> p1 \cup {"raise_dr"}]
                           ELSE [panic |-> "", resp |-> cap(r2), path |-> p1]
        ELSE [panic |-> "", resp |-> cap(r1), path |-> p1]

\* Line 132.
history_gate(r) == Len(r.uplink_history) = required_history_count

\* Mutant: the rate floor covers dr 0 only.
rate_floor_applies_zero_only(resp) == resp.dr = 0

\* Lines 168-170.
rate_floor_applies(resp) == resp.dr = 0 \/ resp.dr = 1

rate_floor(resp) ==
    IF rate_floor_applies(resp) THEN [resp EXCEPT !.nb_trans = 1] ELSE resp

\* Lines 172-175.
escape_applies(r, resp, snr_max) ==
    resp.dr = 0 /\ snr_max > data_rate_to_req_snr(1) + r.installation_margin

lowest_rate_escape(r, resp, snr_max) ==
    IF escape_applies(r, resp, snr_max)
    THEN [resp EXCEPT !.dr = min(1, r.max_dr),
                      !.tx_power_index = r.min_tx_power_index]
    ELSE resp

\* Lines 98-186.
handle(r, build) ==
    LET resp0 == current_values(r)
    IN  IF adr_disabled(r)
        THEN Outcome("ok", "", resp0, {}, resp0, -1, -1, SnrSentinel - 1)
        ELSE IF clamp_panics(r)
        THEN Outcome("panic", "clamp", NoResp, {}, NoResp, -1, -1,
                     SnrSentinel - 1)
        ELSE
        LET resp1 == bound_clamp(r, resp0)
        IN  IF early_exit(r, resp1)
            THEN Outcome("ok", "", early_exit_response(resp1),
                         {"clamp", "early_exit"}, NoResp, -1, -1,
                         SnrSentinel - 1)
            ELSE
            LET pkt_loss == get_packet_loss_percentage(r)
                calc_nb_trans == get_nb_trans(r.nb_trans, pkt_loss)
            IN  IF get_max_snr_panics(r)
                THEN Outcome("panic", "get_max_snr", NoResp, {"clamp"},
                             NoResp, pkt_loss, calc_nb_trans, SnrSentinel - 1)
                ELSE
                LET snr_max == get_max_snr(r)
                    r7 == IF history_gate(r)
                          THEN retune(r, resp1, calc_nb_trans, snr_max, build)
                          ELSE [panic |-> "", resp |-> resp1, path |-> {}]
                IN  IF r7.panic # ""
                    THEN Outcome("panic", r7.panic, NoResp,
                                 {"clamp"} \cup r7.path, NoResp, pkt_loss,
                                 calc_nb_trans, snr_max)
                    ELSE
                    LET r8 == rate_floor(r7.resp)
                        r9 == lowest_rate_escape(r, r8, snr_max)
                    IN  Outcome("ok", "", r9,
                            {"clamp"} \cup r7.path
                              \cup (IF rate_floor_applies(r7.resp)
                                    THEN {"rate_floor"} ELSE {})
                              \cup (IF escape_applies(r, r8, snr_max)
                                    THEN {"escape"} ELSE {}),
                            r7.resp, pkt_loss, calc_nb_trans, snr_max)

\* ------------------------------------------------------------- requests

\* SNR samples and installation margins, tenths of a dB.
Snrs == {-200, -60, 50}
Margins == {0, 100}
\* Frames lost inside a history: 0, 5, 10 and 30 percent of 20 samples.
Gaps == {0, 1, 2, 6}

\* A history of n samples, oldest first: frame counters rise by one, with
\* `gap` frames missing (split over the first two steps); the samples in
\* the last 5 places carry snr_new, the older ones snr_old.
MkHistory(n, gap, snr_old, snr_new) ==
    [i \in 1..n |->
        [f_cnt |-> FCntStart + (i - 1)
                     + (IF i >= 2 THEN gap \div 2 ELSE 0)
                     + (IF i >= 3 THEN gap - (gap \div 2) ELSE 0),
         max_snr |-> IF i <= n - 5 THEN snr_old ELSE snr_new]]

Req(adr, dr, min_dr, max_dr, tx, min_tx, max_tx, nb, mac, margin, skip, h) ==
    [adr |-> adr, dr |-> dr, min_dr |-> min_dr, max_dr |-> max_dr,
     tx_power_index |-> tx, min_tx_power_index |-> min_tx,
     max_tx_power_index |-> max_tx, nb_trans |-> nb, mac_version |-> mac,
     installation_margin |-> margin, skip_fcnt_check |-> skip,
     uplink_history |-> h]

\* Every combination of current value and bounds, inverted bounds included,
\* with ADR on and off, over an empty and a full loss-free history.
BoundRequest(r) ==
    \E adr \in BOOLEAN, dr \in 0..MaxDr, lo \in 0..MaxDr, hi \in 0..MaxDr,
       tx \in 0..MaxTxPower, tlo \in 0..MaxTxPower, thi \in 0..MaxTxPower,
       nb \in {0, MaxNbTrans - 1}, n \in {0, required_history_count},
       skip \in BOOLEAN :
        r = Req(adr, dr, lo, hi, tx, tlo, thi, nb, "LORAWAN_1_0_3", 100,
                skip, MkHistory(n, 0, 50, 50))

\* In-bounds requests over a full window: every loss band, baseline,
\* current nb_trans, skip_fcnt_check and protocol revision.
RetuneRequest(r) ==
    \E dr \in 0..MaxDr, nb \in 0..MaxNbTrans, skip \in BOOLEAN,
       mac \in MacVersions, gap \in Gaps,
       snr \in Snrs, tx \in 0..MaxTxPower :
      \E lo \in 0..dr, hi \in dr..MaxDr, tlo \in 0..tx,
         thi \in tx..MaxTxPower :
        r = Req(TRUE, dr, lo, hi, tx, tlo, thi, nb, mac, 100, skip,
                MkHistory(required_history_count, gap, snr, -200))

\* In-bounds requests over every history length, within the rates the
\* required-SNR table knows.
HistoryRequest(r) ==
    \E dr \in 0..MaxReqSnrRate, nb \in 0..MaxNbTrans, margin \in Margins,
       skip \in BOOLEAN, n \in 0..MaxHistory, gap \in Gaps,
       so \in Snrs, sn \in {-200, 50} :
        r = Req(TRUE, dr, 0, MaxReqSnrRate, MaxTxPower, 0, MaxTxPower, nb,
                "LORAWAN_1_0_3", margin, skip, MkHistory(n, gap, so, sn))

\* In-bounds requests with ADR on over a loss-free full window whose samples
\* all carry one SNR, within the rates the required-SNR table knows: where
\* the closed loop starts.
LoopRequest(r) ==
    \E dr \in 0..MaxReqSnrRate, nb \in 0..MaxNbTrans, skip \in BOOLEAN,
       mac \in MacVersions, margin \in Margins, snr \in Snrs,
       tx \in 0..MaxTxPower :
      \E lo \in 0..dr, hi \in dr..MaxReqSnrRate, tlo \in 0..tx,
         thi \in tx..MaxTxPower :
        r = Req(TRUE, dr, lo, hi, tx, tlo, thi, nb, mac, margin, skip,
                MkHistory(required_history_count, 0, snr, snr))

\* ---------------------------------------------------- messagelog/mod.rs

MaxSetups == 2
MaxSenders == 2

SetupCallers == 1..MaxSetups
Senders == 1..MaxSenders

\* BACKEND holds None (line 15) or Some(backend); a backend is named by the
\* number of the MqttBackend::new call that built it.
NoBackend == 0

\* The state of the message logger: servers_configured is
\* !conf.message_logger.mqtt.servers.is_empty(); BACKEND is the static of
\* lines 14-16; created counts the backends MqttBackend::new has built;
\* setup_pc / setup_backend / setup_ret follow each call of setup();
\* send_pc / send_via follow each caller of send() (send_via: the backend
\* its last log_message went to).
Messagelog(servers_configured) ==
    [servers_configured |-> servers_configured,
     BACKEND |-> NoBackend,
     created |-> 0,
     setup_pc |-> [c \in SetupCallers |-> "idle"],
     setup_backend |-> [c \in SetupCallers |-> NoBackend],
     setup_ret |-> [c \in SetupCallers |-> "none"],
     send_pc |-> [s \in Senders |-> "idle"],
     send_via |-> [s \in Senders |-> NoBackend]]

MessagelogIdle == Messagelog(FALSE)

\* Mutant: setup() connects whatever the configuration says.
setup_connects_always(m) == TRUE

\* Line 20: setup() goes on to MqttBackend::new unless the list of servers
\* is empty.
setup_connects(m) == m.servers_configured

\* The read guards held: send() holds BACKEND.read() while log_message
\* runs (lines 34-38).
Readers(m) == {s \in Senders : m.send_pc[s] = "publishing"}

\* The setup() calls waiting at BACKEND.write() (line 25).
WaitingWriters(m) == {c \in SetupCallers : m.setup_pc[c] = "write"}

\* Lines 18-23: setup() is called; with no server configured it only logs
\* and returns Ok(()), otherwise it starts MqttBackend::new.
SetupStart(c) ==
    /\ messagelog.setup_pc[c] = "idle"
    /\ IF setup_connects(messagelog)
       THEN messagelog' = [messagelog EXCEPT !.setup_pc[c] = "connecting"]
       ELSE messagelog' = [messagelog EXCEPT !.setup_pc[c] = "done",
                                             !.setup_ret[c] = "ok"]
    /\ UNCHANGED <<req, result, pulsar>>

\* Line 23: MqttBackend::new(..).await succeeds (mqtt.rs lines 19-98).
SetupConnected(c) ==
    /\ messagelog.setup_pc[c] = "connecting"
    /\ messagelog' = [messagelog EXCEPT
            !.setup_pc[c] = "write",
            !.created = messagelog.created + 1,
            !.setup_backend[c] = messagelog.created + 1]
    /\ UNCHANGED <<req, result, pulsar>>

\* Line 23: MqttBackend::new(..).await? fails; setup() returns the error
\* and leaves BACKEND alone.
SetupConnectFailed(c) ==
    /\ messagelog.setup_pc[c] = "connecting"
    /\ messagelog' = [messagelog EXCEPT !.setup_pc[c] = "done",
                                        !.setup_ret[c] = "err"]
    /\ UNCHANGED <<req, result, pulsar>>

\* Lines 24-30: with the write guard (no read guard is held),
\* *backend = Some(mqtt_backend), whatever BACKEND held; returns Ok(()).
SetupStore(c) ==
    /\ messagelog.setup_pc[c] = "write"
    /\ Readers(messagelog) = {}
    /\ messagelog' = [messagelog EXCEPT
            !.BACKEND = messagelog.setup_backend[c],
            !.setup_pc[c] = "done",
            !.setup_ret[c] = "ok"]
    /\ UNCHANGED <<req, result, pulsar>>

\* Lines 33-41: send() takes a read guard (the lock is fair: not while a
\* writer waits); with a backend it starts log_message, without one it
\* only traces and returns.
SendStart(s) ==
    /\ messagelog.send_pc[s] = "idle"
    /\ WaitingWriters(messagelog) = {}
    /\ IF messagelog.BACKEND # NoBackend
       THEN messagelog' = [messagelog EXCEPT
                !.send_pc[s] = "publishing",
                !.send_via[s] = messagelog.BACKEND]
       ELSE messagelog' = [messagelog EXCEPT !.send_pc[s] = "returned"]
    /\ UNCHANGED <<req, result, pulsar>>

\* Lines 36-38: log_message ends, with Ok or with an error that is only
\* logged; the read guard is dropped and send() returns.
SendLogged(s) ==
    /\ messagelog.send_pc[s] = "publishing"
    /\ messagelog' = [messagelog EXCEPT !.send_pc[s] = "returned"]
    /\ UNCHANGED <<req, result, pulsar>>

\* The caller of send() goes on, and may send again.
SendReturned(s) ==
    /\ messagelog.send_pc[s] = "returned"
    /\ messagelog' = [messagelog EXCEPT !.send_pc[s] = "idle"]
    /\ UNCHANGED <<req, result, pulsar>>

\* ------------------------------------------------- integration/pulsar.rs

\* The event kinds, as the event operations pass them to get_event_topic.
EventKinds ==
    {"up", "join", "ack", "txack", "log", "status", "location", "integration"}

AppIds == {"app1"}
DevEuis == {"0102030405060708", "0807060504030201"}

\* conf.event_topic, cut into literal pieces and {{variables}}.
EventTopics ==
    { <<"application.", "{{application_id}}", ".device.", "{{dev_eui}}",
        ".event.", "{{event}}">>,
      <<"{{event}}", "/", "{{dev_eui}}", "/", "{{tenant}}">> }

\* Handlebars::render with no_escape: a known variable is replaced by its
\* value as it is, an unknown one by the empty string, a literal is kept.
render(template, ctx) ==
    [i \in 1..Len(template) |->
        IF template[i] = "{{application_id}}" THEN ctx.application_id
        ELSE IF template[i] = "{{dev_eui}}" THEN ctx.dev_eui
        ELSE IF template[i] = "{{event}}" THEN ctx.event
        ELSE IF template[i] = "{{tenant}}" THEN ""
        ELSE template[i]]

\* Lines 78-88.
get_event_topic(integ, application_id, dev_eui, event) ==
    render(integ.template,
           [application_id |-> application_id, dev_eui |-> dev_eui,
            event |-> event])

\* Lines 104-107 (and the same match in every event operation): the
\* payload is the event in JSON or in protobuf.
encode_payload(integ, event, dev_eui) ==
    [encoding |-> IF integ.json THEN "json" ELSE "protobuf",
     event |-> event, dev_eui |-> dev_eui]

NoMessage == [topic |-> <<>>, payload |-> <<>>]

\* An Integration (lines 51-55) with no event operation running.
\* pc: where the running event operation stands; message: what it handed
\* to client.send; sends: how often it called client.send; broker_failed:
\* which broker step failed ("send" or "ack"); ret / error: what the
\* operation returned to its caller; delivered: the last message the broker
\* acknowledged.
PulsarIdle(json, template) ==
    [json |-> json, template |-> template,
     pc |-> "idle", event |-> "", message |-> NoMessage, sends |-> 0,
     broker_failed |-> "", ret |-> "none", error |-> "",
     delivered |-> NoMessage]

\* Mutant: the broker's failure is logged and swallowed.
publish_event_result_swallowed(broker_failed) ==
    [ret |-> "ok", error |-> ""]

\* Lines 68 and 74: `?` hands the error of send, or of the awaited
\* acknowledgement, to the caller; line 75 returns Ok(()).
publish_event_result(broker_failed) ==
    IF broker_failed = "" THEN [ret |-> "ok", error |-> ""]
    ELSE [ret |-> "err", error |-> broker_failed]

\* An event operation up to its first await (lines 93-108 for uplink, and
\* alike for the others): without device_info it returns the error
\* "device_info is None"; otherwise it renders the topic, encodes the
\* payload and calls client.send (line 68).
event_operation(event) ==
    /\ pulsar.pc = "idle"
    /\ \/ pulsar' = [pulsar EXCEPT !.pc = "returned", !.event = event,
                                   !.message = NoMessage, !.sends = 0,
                                   !.broker_failed = "",
                                   !.ret = "err",
                                   !.error = "device_info is None"]
       \/ \E application_id \in AppIds, dev_eui \in DevEuis :
            pulsar' = [pulsar EXCEPT
                !.pc = "sending", !.event = event,
                !.message =
                    [topic |-> get_event_topic(pulsar, application_id,
                                               dev_eui, event),
                     payload |-> encode_payload(pulsar, event, dev_eui)],
                !.sends = 1, !.broker_failed = "",
                !.ret = "none", !.error = ""]
    /\ UNCHANGED <<req, result, messagelog>>

uplink_event == event_operation("up")
join_event == event_operation("join")
ack_event == event_operation("ack")
txack_event == event_operation("txack")
log_event == event_operation("log")
status_event == event_operation("status")
location_event == event_operation("location")
integration_event == event_operation("integration")

\* Line 68: client.send(topic, msg).await succeeds and yields the future of
\* the acknowledgement.
SendAccepted ==
    /\ pulsar.pc = "sending"
    /\ pulsar' = [pulsar EXCEPT !.pc = "awaiting_ack"]
    /\ UNCHANGED <<req, result, messagelog>>

\* Line 68: client.send(topic, msg).await fails.
SendFailed ==
    /\ pulsar.pc = "sending"
    /\ LET out == publish_event_result("send")
       IN  pulsar' = [pulsar EXCEPT !.pc = "returned",
                                    !.broker_failed = "send",
                                    !.ret = out.ret, !.error = out.error]
    /\ UNCHANGED <<req, result, messagelog>>

\* Line 74: the acknowledgement arrives.
AckReceived ==
    /\ pulsar.pc = "awaiting_ack"
    /\ LET out == publish_event_result("")
       IN  pulsar' = [pulsar EXCEPT !.pc = "returned",
                                    !.delivered = pulsar.message,
                                    !.ret = out.ret, !.error = out.error]
    /\ UNCHANGED <<req, result, messagelog>>

\* Line 74: the awaited acknowledgement fails.
AckFailed ==
    /\ pulsar.pc = "awaiting_ack"
    /\ LET out == publish_event_result("ack")
       IN  pulsar' = [pulsar EXCEPT !.pc = "returned",
                                    !.broker_failed = "ack",
                                    !.ret = out.ret, !.error = out.error]
    /\ UNCHANGED <<req, result, messagelog>>

\* The caller has the operation's result; the integration is free for the
\* next event.
EventReturned ==
    /\ pulsar.pc = "returned"
    /\ pulsar' = [pulsar EXCEPT !.pc = "idle", !.event = "",
                                !.message = NoMessage, !.sends = 0,
                                !.broker_failed = "", !.ret = "none",
                                !.error = ""]
    /\ UNCHANGED <<req, result, messagelog>>

\* ------------------------------------------------------- specification

Init ==
    /\ \/ HistoryRequest(req)
       \/ RetuneRequest(req)
       \/ BoundRequest(req)
    /\ result = NoResult
    /\ pulsar = PulsarIdle(TRUE, <<>>)
    /\ messagelog = MessagelogIdle

\* One evaluation: the caller awaits handle(req) on a binary built with or
\* without overflow checks.
Handle ==
    /\ result.kind = "none"
    /\ \E build \in Builds : result' = handle(req, build)
    /\ UNCHANGED <<req, pulsar, messagelog>>

Next == Handle

Spec == Init /\ [][Next]_vars

\* The device takes the response: the next request carries the response's
\* dr, tx_power_index and nb_trans as its current values; bounds, margin and
\* history stay as they are.
Feedback ==
    /\ result.kind = "ok"
    /\ req' = [req EXCEPT !.dr = result.dr,
                          !.tx_power_index = result.tx_power_index,
                          !.nb_trans = result.nb_trans]
    /\ result' = NoResult
    /\ UNCHANGED <<pulsar, messagelog>>

\* The closed loop: handle is called on each request in turn.  A call that
\* returns is always followed by the next one, hence the fairness.
InitLoop ==
    /\ LoopRequest(req)
    /\ result = NoResult
    /\ pulsar = PulsarIdle(TRUE, <<>>)
    /\ messagelog = MessagelogIdle

NextLoop ==
    \/ Handle
    \/ Feedback

SpecLoop ==
    InitLoop /\ [][NextLoop]_vars /\ WF_vars(Handle) /\ WF_vars(Feedback)

\* The Pulsar integration on its own: Integration::new has run with one of
\* the configurations, the ADR engine is not involved.
InitPulsar ==
    /\ req = Req(FALSE, 0, 0, 0, 0, 0, 0, 0, "LORAWAN_1_0_3", 0, FALSE, <<>>)
    /\ result = NoResult
    /\ \E json \in BOOLEAN, template \in EventTopics :
          pulsar = PulsarIdle(json, template)
    /\ messagelog = MessagelogIdle

NextPulsar ==
    \/ uplink_event
    \/ join_event
    \/ ack_event
    \/ txack_event
    \/ log_event
    \/ status_event
    \/ location_event
    \/ integration_event
    \/ SendAccepted
    \/ SendFailed
    \/ AckReceived
    \/ AckFailed
    \/ EventReturned

SpecPulsar == InitPulsar /\ [][NextPulsar]_vars

\* The message logger on its own: the configuration names servers or does
\* not; setup() and send() are called in any interleaving.
InitMessagelog ==
    /\ req = Req(FALSE, 0, 0, 0, 0, 0, 0, 0, "LORAWAN_1_0_3", 0, FALSE, <<>>)
    /\ result = NoResult
    /\ pulsar = PulsarIdle(TRUE, <<>>)
    /\ \E servers_configured \in BOOLEAN :
          messagelog = Messagelog(servers_configured)

NextMessagelog ==
    \/ \E c \in SetupCallers : SetupStart(c)
    \/ \E c \in SetupCallers : SetupConnected(c)
    \/ \E c \in SetupCallers : SetupConnectFailed(c)
    \/ \E c \in SetupCallers : SetupStore(c)
    \/ \E s \in Senders : SendStart(s)
    \/ \E s \in Senders : SendLogged(s)
    \/ \E s \in Senders : SendReturned(s)

SpecMessagelog == InitMessagelog /\ [][NextMessagelog]_vars

\* ---------------------------------------------------------------- claims

Returned == result.kind = "ok"
Finished == result.kind # "none"
HistoryLen == Len(req.uplink_history)

\* min <= max for both pairs of bounds (the request's data contract).
WellFormedBounds ==
    /\ req.min_dr <= req.max_dr
    /\ req.min_tx_power_index <= req.max_tx_power_index

DrInBounds == req.min_dr <= req.dr /\ req.dr <= req.max_dr
TxInBounds ==
    /\ req.min_tx_power_index <= req.tx_power_index
    /\ req.tx_power_index <= req.max_tx_power_index
InBounds == WellFormedBounds /\ DrInBounds /\ TxInBounds

ResponseIs(dr, tx, nb) ==
    /\ Returned
    /\ result.dr = dr
    /\ result.tx_power_index = tx
    /\ result.nb_trans = nb

\* C1: for every request with min_dr <= max_dr and min_tx_power_index <=
\* max_tx_power_index (ADR enabled or not, any history), the response that
\* handle returns has dr in [min_dr, max_dr] and tx_power_index in
\* [min_tx_power_index, max_tx_power_index].
C1_ResponseWithinBounds ==
    (Returned /\ WellFormedBounds) =>
        /\ req.min_dr <= result.dr
        /\ result.dr <= req.max_dr
        /\ req.min_tx_power_index <= result.tx_power_index
        /\ result.tx_power_index <= req.max_tx_power_index

\* C2: handle returns a response (no panic, abort or error) for every
\* well-formed request: ordered bounds, a history of 0 to 20 samples with
\* strictly increasing frame counters, small current values.
C2_HandleAlwaysReturns ==
    (Finished /\ WellFormedBounds /\ HistoryLen <= required_history_count)
        => Returned

\* C3: with ADR disabled the response equals the request's current dr,
\* tx_power_index and nb_trans for any history and any bounds, and none of
\* the clamp, retuning, rate-floor or lowest-rate-escape blocks runs.
C3_PassThrough ==
    (Finished /\ ~req.adr) =>
        /\ ResponseIs(req.dr, req.tx_power_index, req.nb_trans)
        /\ result.path = {}

C3_Witness ==
    /\ ~req.adr
    /\ Returned
    /\ req.dr > req.max_dr
    /\ req.tx_power_index < req.min_tx_power_index
    /\ req.nb_trans = 0
    /\ result.dr = req.dr

\* C4: with ADR enabled (and ordered bounds), a dr outside [min_dr, max_dr]
\* gives exactly (clamped dr, min_tx_power_index, 1) for any history; a dr
\* inside with a tx_power_index outside its bounds gives (dr, clamped
\* tx_power_index, 1).  In both cases only the clamp and the early exit run.
C4_ClampEarlyExit ==
    (Finished /\ req.adr /\ WellFormedBounds) =>
        /\ ~DrInBounds =>
              /\ ResponseIs(IF req.dr < req.min_dr THEN req.min_dr
                                                   ELSE req.max_dr,
                            req.min_tx_power_index, 1)
              /\ result.path = {"clamp", "early_exit"}
        /\ (DrInBounds /\ ~TxInBounds) =>
              /\ ResponseIs(req.dr,
                            IF req.tx_power_index < req.min_tx_power_index
                            THEN req.min_tx_power_index
                            ELSE req.max_tx_power_index,
                            1)
              /\ result.path = {"clamp", "early_exit"}

C4_Witness ==
    /\ req.adr
    /\ WellFormedBounds
    /\ req.dr > req.max_dr
    /\ req.tx_power_index > req.min_tx_power_index
    /\ req.nb_trans > 1
    /\ HistoryLen = 0
    /\ ResponseIs(req.max_dr, req.min_tx_power_index, 1)

\* C5 as stated: every response whose dr is 0 or 1 has nb_trans = 1,
\* whatever path produced it, the ADR-disabled pass-through included.
C5_RateFloorOnEveryPath ==
    (Returned /\ result.dr \in {0, 1}) => result.nb_trans = 1

\* C5 amended: every response produced with ADR enabled whose dr is 0 or 1
\* has nb_trans = 1, on every path (clamp early exit, retuning, rate raise,
\* step-down, lowest-rate escape) and for every nb_trans of the request;
\* the ADR-disabled pass-through returns the request's nb_trans unchanged.
C5_RateFloorWhenAdrEnabled ==
    /\ (Returned /\ req.adr /\ result.dr \in {0, 1}) => result.nb_trans = 1
    /\ (Returned /\ ~req.adr) => result.nb_trans = req.nb_trans

C5_Witness ==
    /\ req.adr
    /\ Returned
    /\ req.dr = 1
    /\ req.nb_trans > 1
    /\ HistoryLen # required_history_count
    /\ "rate_floor" \in result.path
    /\ "early_exit" \notin result.path
    /\ result.dr = 1
    /\ result.nb_trans = 1

\* What the rate floor and the lowest-rate escape make of the request's
\* current values, for a baseline snr.
FloorAndEscape(snr) ==
    LET nb == IF req.dr \in {0, 1} THEN 1 ELSE req.nb_trans
        up == req.dr = 0 /\ snr > -175 + req.installation_margin
    IN  [dr |-> IF up THEN (IF req.max_dr < 1 THEN req.max_dr ELSE 1)
                      ELSE req.dr,
         tx_power_index |-> IF up THEN req.min_tx_power_index
                                  ELSE req.tx_power_index,
         nb_trans |-> nb]

\* C6: with ADR enabled, an in-bounds request and a history of any length in
\* 0..20 other than 20, the retuning block never runs and the response is
\* what the rate floor and the lowest-rate escape produce from the current
\* values; for current dr >= 2 it equals the current values.
C6_UngatedIsFloorAndEscape ==
    (Finished /\ req.adr /\ InBounds /\ HistoryLen < required_history_count)
        =>
        /\ Returned
        /\ "retune" \notin result.path
        /\ LET e == FloorAndEscape(result.snr_max)
           IN  ResponseIs(e.dr, e.tx_power_index, e.nb_trans)
        /\ req.dr >= 2 =>
              ResponseIs(req.dr, req.tx_power_index, req.nb_trans)

\* C7: with ADR enabled, an in-bounds request and exactly 20 samples, a
\* desired nb_trans above max_nb_trans (1 under skip_fcnt_check, else 3)
\* takes the step-down branch: dr after the retuning block is
\* max(current dr - 1, min_dr), without wrapping or aborting even at
\* current dr = 0, and nb_trans is reset to 1.
C7_StepDownFlooredAtMinDr ==
    (/\ Finished
     /\ req.adr
     /\ InBounds
     /\ HistoryLen = required_history_count
     /\ result.calc_nb_trans > (IF req.skip_fcnt_check THEN 1 ELSE 3))
        =>
        /\ Returned
        /\ "step_down" \in result.path
        /\ result.retuned.dr =
              (IF req.dr - 1 > req.min_dr THEN req.dr - 1 ELSE req.min_dr)
        /\ result.retuned.nb_trans = 1

\* C8 as stated: the response's nb_trans is at least 1 for every request,
\* current nb_trans 0 included, ADR enabled or not, every history length.
C8_NbTransAtLeastOne == Returned => result.nb_trans >= 1

\* C8 amended: the response's nb_trans is at least 1 whenever the request's
\* nb_trans is at least 1, and also, for a request whose nb_trans is 0, when
\* ADR is enabled and a clamp changed dr or tx_power_index, or the history
\* holds exactly 20 samples, or the response's dr is 0 or 1.  A request with
\* nb_trans 0 gets 0 back when ADR is disabled, and when ADR is enabled, the
\* request is in bounds, the history is not 20 long and dr is 2 or more.
C8_NbTransAtLeastOneWhenTuned ==
    /\ (/\ Returned
        /\ \/ req.nb_trans >= 1
           \/ /\ req.adr
              /\ \/ ~InBounds
                 \/ HistoryLen = required_history_count
                 \/ result.dr \in {0, 1})
          => result.nb_trans >= 1
    /\ (/\ Returned
        /\ req.nb_trans = 0
        /\ \/ ~req.adr
           \/ /\ InBounds
              /\ HistoryLen # required_history_count
              /\ req.dr >= 2)
          => result.nb_trans = 0

C8_Witness ==
    /\ req.adr
    /\ req.nb_trans = 0
    /\ ~DrInBounds
    /\ WellFormedBounds
    /\ Returned
    /\ result.dr >= 2
    /\ result.nb_trans = 1

\* C9 as stated: with skip_fcnt_check and ADR enabled the response's
\* nb_trans is 1 for every history length and every current nb_trans.
C9_SkipFcntCheckAlwaysOne ==
    (Returned /\ req.adr /\ req.skip_fcnt_check) => result.nb_trans = 1

\* C9 amended: with skip_fcnt_check and ADR enabled the response's nb_trans
\* is 1 for every current nb_trans when the history holds exactly 20 samples
\* (and when a clamp exits early, or the response's dr is 0 or 1); with an
\* in-bounds request, another history length and dr >= 2 the limit is not
\* applied and the request's nb_trans comes back unchanged.
C9_SkipFcntCheckOneWhenRetuned ==
    /\ (/\ Returned
        /\ req.adr
        /\ req.skip_fcnt_check
        /\ \/ HistoryLen = required_history_count
           \/ ~InBounds
           \/ result.dr \in {0, 1})
          => result.nb_trans = 1
    /\ (/\ Returned
        /\ req.adr
        /\ req.skip_fcnt_check
        /\ InBounds
        /\ HistoryLen # required_history_count
        /\ req.dr >= 2)
          => result.nb_trans = req.nb_trans

C9_Witness ==
    /\ req.adr
    /\ req.skip_fcnt_check
    /\ InBounds
    /\ HistoryLen = required_history_count
    /\ req.nb_trans = 1
    /\ Returned
    /\ "raise_dr" \in result.path
    /\ result.dr >= 2
    /\ result.nb_trans = 1

\* Frames missing from the history: the frame counters span last - first,
\* of which Len - 1 steps were expected.
FramesLost ==
    IF HistoryLen = 0 THEN 0
    ELSE req.uplink_history[HistoryLen].f_cnt - req.uplink_history[1].f_cnt
           - (HistoryLen - 1)

\* Row of the matrix for loss = 100 * FramesLost / HistoryLen (0 when the
\* history is empty), compared without dividing.
LossBand ==
    IF HistoryLen = 0 \/ 100 * FramesLost < 5 * HistoryLen THEN 1
    ELSE IF 100 * FramesLost < 10 * HistoryLen THEN 2
    ELSE IF 100 * FramesLost < 30 * HistoryLen THEN 3
    ELSE 4

NbTransColumn ==
    IF req.nb_trans < 1 THEN 1 ELSE IF req.nb_trans > 3 THEN 3
    ELSE req.nb_trans

\* C10: the desired nb_trans is the entry [band][clamp(nb_trans, 1, 3)] of
\* <5: (0,1,2), <10: (1,2,3), <30: (2,3,4), >=30: (4,4,4), the band taken
\* from loss = 100 * (sum of f_cnt gaps) / history length, loss 0 for an
\* empty history; for current nb_trans 0 and above 3 too.
C10_DesiredNbTransMatrix ==
    (Finished /\ result.calc_nb_trans # -1) =>
        /\ result.calc_nb_trans =
              (CASE LossBand = 1 -> <<0, 1, 2>>
                 [] LossBand = 2 -> <<1, 2, 3>>
                 [] LossBand = 3 -> <<2, 3, 4>>
                 [] LossBand = 4 -> <<4, 4, 4>>)[NbTransColumn]
        /\ HistoryLen = 0 => result.pkt_loss = 0

C10_Witness ==
    /\ Finished
    /\ HistoryLen = 10
    /\ FramesLost = 1
    /\ req.nb_trans = 0
    /\ result.calc_nb_trans = 2

\* C11 as stated: for every event operation of the Pulsar integration a
\* failure of the broker publish (the send or the awaited acknowledgement
\* fails) is contained: the operation does not return an error to its
\* caller.
C11_PublishFailureContained ==
    pulsar.broker_failed \in {"send", "ack"} => pulsar.ret # "err"

\* C11 amended: for every event operation, a failure of the broker publish
\* (the send or the awaited acknowledgement fails) is returned to the
\* operation's caller as an error, after a single send (no retry); the
\* operation returns Ok only when the send was accepted and acknowledged,
\* and it has not returned while the send or the acknowledgement is
\* pending.
C11_PublishFailureReturned ==
    /\ pulsar.broker_failed \in {"send", "ack"} =>
          /\ pulsar.pc = "returned"
          /\ pulsar.ret = "err"
          /\ pulsar.error = pulsar.broker_failed
          /\ pulsar.sends = 1
    /\ pulsar.ret = "ok" =>
          /\ pulsar.pc = "returned"
          /\ pulsar.broker_failed = ""
          /\ pulsar.sends = 1
          /\ pulsar.delivered = pulsar.message
    /\ pulsar.pc \in {"sending", "awaiting_ack"} => pulsar.ret = "none"
    /\ pulsar.pc = "returned" => pulsar.ret \in {"ok", "err"}

C11_Witness ==
    /\ pulsar.event = "integration"
    /\ pulsar.pc = "returned"
    /\ pulsar.broker_failed = "ack"
    /\ pulsar.ret = "err"
    /\ pulsar.delivered.payload # <<>>
    /\ pulsar.delivered.payload.event = "up"

\* C12 as stated: over any interleaving of setup() and send() calls the
\* message-log backend handle goes from unset to set at most once and is
\* never replaced or cleared afterwards.
C12_BackendSetAtMostOnce ==
    [][messagelog.BACKEND # NoBackend =>
            messagelog'.BACKEND = messagelog.BACKEND]_vars

\* C12 amended: over any interleaving of setup() and send() calls, the
\* backend handle changes only in a setup() call that found at least one
\* server configured and whose connection succeeded, and that call stores
\* the backend it has just built, also in place of a backend stored by an
\* earlier setup(); the handle is never cleared; send() only reads it.
C12_BackendWrittenOnlyBySetup ==
    [][messagelog'.BACKEND # messagelog.BACKEND =>
            /\ messagelog.servers_configured
            /\ messagelog'.BACKEND # NoBackend
            /\ messagelog'.send_pc = messagelog.send_pc
            /\ messagelog'.send_via = messagelog.send_via
            /\ Readers(messagelog) = {}
            /\ \E c \in SetupCallers :
                  /\ messagelog.setup_pc[c] = "write"
                  /\ messagelog'.setup_pc[c] = "done"
                  /\ messagelog'.setup_ret[c] = "ok"
                  /\ messagelog.setup_backend[c] \in 1..messagelog.created
                  /\ messagelog'.BACKEND = messagelog.setup_backend[c]]_vars

\* A second setup() has replaced the backend a send() had logged to.
C12_Witness ==
    /\ messagelog.BACKEND # NoBackend
    /\ \E s \in Senders :
          /\ messagelog.send_pc[s] = "returned"
          /\ messagelog.send_via[s] # NoBackend
          /\ messagelog.send_via[s] # messagelog.BACKEND
    /\ \A c \in SetupCallers : messagelog.setup_ret[c] = "ok"

\* The baseline as C13 words it: the largest max_snr among the samples
\* other than the most recent 5, the sentinel when there is no such sample.
Baseline ==
    LET older == {req.uplink_history[i].max_snr : i \in 1..(HistoryLen - 5)}
    IN  IF older = {} THEN SnrSentinel
        ELSE CHOOSE m \in older : \A x \in older : x <= m

\* handle went as far as the baseline of line 130.
BaselineReached ==
    Finished /\ req.adr /\ InBounds /\ "early_exit" \notin result.path

\* C13: for a history of any length n in 0..20 the SNR baseline is computed
\* and equals the largest max_snr over the samples other than the most
\* recent 5, the sentinel -999 dB when that window is empty (n <= 5); the 5
\* most recent samples never influence it.
C13_BaselineExcludesRecentFive ==
    (BaselineReached /\ HistoryLen <= required_history_count)
        =>
        /\ result.cause # "get_max_snr"
        /\ result.snr_max = Baseline

\* The case of C14: ADR enabled, in bounds, a full window, a desired
\* nb_trans below 1 and room above the current rate.
RaiseRateCase ==
    /\ Finished /\ req.adr /\ InBounds
    /\ HistoryLen = required_history_count
    /\ get_nb_trans(req.nb_trans, get_packet_loss_percentage(req)) < 1
    /\ req.dr < req.max_dr
    /\ req.dr + 1 <= MaxReqSnrRate

BaselineAllowsRaise ==
    Baseline > data_rate_to_req_snr(req.dr + 1) + req.installation_margin

\* C14 as stated: in the raise-rate case, a baseline above
\* required_snr(dr+1) + installation_margin gives dr + 1, the lowest power
\* index and, for a new dr of 2 or more, nb_trans = 2 whatever
\* skip_fcnt_check is; a baseline not above it leaves dr and the power index
\* alone with nb_trans = 1.
C14_RaiseRateSetsTwo ==
    (RaiseRateCase /\ Returned) =>
        IF BaselineAllowsRaise
        THEN /\ result.dr = req.dr + 1
             /\ result.tx_power_index = req.min_tx_power_index
             /\ result.dr >= 2 => result.nb_trans = 2
        ELSE ResponseIs(req.dr, req.tx_power_index, 1)

\* C14 amended: in the raise-rate case, with dr + 1 a rate the required-SNR
\* table knows, handle returns; a baseline above
\* required_snr(dr+1) + installation_margin gives dr + 1, the lowest power
\* index and nb_trans = 2 when the new dr is 2 or more and skip_fcnt_check
\* is off, nb_trans = 1 otherwise; a baseline not above it leaves dr and
\* the power index alone with nb_trans = 1.
C14_RaiseRateCappedUnderSkip ==
    RaiseRateCase =>
        /\ Returned
        /\ IF BaselineAllowsRaise
           THEN ResponseIs(req.dr + 1, req.min_tx_power_index,
                           IF req.dr + 1 >= 2 /\ ~req.skip_fcnt_check
                           THEN 2 ELSE 1)
           ELSE ResponseIs(req.dr, req.tx_power_index, 1)

C14_Witness ==
    /\ RaiseRateCase /\ Returned
    /\ BaselineAllowsRaise
    /\ req.skip_fcnt_check
    /\ req.tx_power_index > req.min_tx_power_index
    /\ ResponseIs(req.dr + 1, req.min_tx_power_index, 1)
    /\ result.dr >= 2

\* The response repeats the request's current values.
FixedPoint == ResponseIs(req.dr, req.tx_power_index, req.nb_trans)

\* C15: in the closed loop, started from any in-bounds request with ADR on
\* and run over a fixed loss-free 20-sample history with a constant
\* baseline, the response comes to equal the request's current values and
\* stays so, and dr stays within [min_dr, max_dr] at every step.  The
\* formula is the claim's "at every step" half: every evaluation of the loop
\* returns a response, with dr within [min_dr, max_dr].
C15_ClosedLoopDrStaysInBounds ==
    Finished =>
        /\ Returned
        /\ result.dr >= req.min_dr
        /\ result.dr <= req.max_dr

====
